---- MODULE Spec2Model ----
(***************************************************************************)
(* Model of src/routes/serve.rs: the resize policy of fetch_file, the      *)
(* transcoder try_resize and the control flow of fetch_file.               *)
(*                                                                         *)
(* The resize policy computes in f32 (`as f32`, `/`, `*`) and converts     *)
(* back with `as isize`; the model carries IEEE-754 binary32 values as     *)
(* sign / 24-bit significand / exponent records and rounds to nearest,     *)
(* ties to even, after every operation, as the hardware does.              *)
(***************************************************************************)
EXTENDS Integers, Sequences, FiniteSets

(***************************************************************************)
(* Bounds of the model.                                                    *)
(***************************************************************************)
MaxDim == 2
MaxReq == 3

(***************************************************************************)
(* Option<T>: None is the empty sequence, Some(x) the one-element one.     *)
(***************************************************************************)
None == <<>>

Some(x) == <<x>>

IsSome(o) == Len(o) = 1

Unwrap(o) == o[1]

Opt(S) == {None} \cup {Some(x) : x \in S}

Min(a, b) == IF a <= b THEN a ELSE b

Abs(n) == IF n < 0 THEN -n ELSE n

RECURSIVE Pow2(_)
Pow2(n) == IF n = 0 THEN 1 ELSE 2 * Pow2(n - 1)

(***************************************************************************)
(* IEEE-754 binary32.  A value is [s, m, e]: (-1)^s * m * 2^e, with        *)
(* 2^23 <= m < 2^24, or m = 0 for zero.  Exponent range is not modelled:   *)
(* every value the policy computes lies between 2^-32 and 2^32 in          *)
(* magnitude, far from subnormals and infinities.                          *)
(***************************************************************************)
Two23 == 8388608
Two24 == 16777216

F32Zero(s) == [s |-> s, m |-> 0, e |-> 0]

\* Round-to-nearest, ties-to-even: q is the truncated 24-bit significand,
\* half the first discarded bit, sticky whether any later discarded bit is set.
RoundPack(s, q, e, half, sticky) ==
    LET up == half = 1 /\ (sticky \/ q % 2 = 1)
        r  == IF up THEN q + 1 ELSE q
    IN  IF r = Two24 THEN [s |-> s, m |-> Two23, e |-> e + 1]
                     ELSE [s |-> s, m |-> r, e |-> e]

\* Shift a positive integer below 2^24 left until it is a normal significand.
RECURSIVE NormLeft(_, _, _)
NormLeft(s, a, e) ==
    IF a >= Two23 THEN [s |-> s, m |-> a, e |-> e]
                  ELSE NormLeft(s, 2 * a, e - 1)

\* Number of low bits to drop so that a >= 2^24 fits 24 bits.
RECURSIVE ExtraBits(_)
ExtraBits(a) == IF a < Two24 THEN 0 ELSE 1 + ExtraBits(a \div 2)

\* `n as f32` for an isize n.
IntToF32(n) ==
    LET s == IF n < 0 THEN 1 ELSE 0
        a == Abs(n)
    IN  IF a = 0 THEN F32Zero(0)
        ELSE IF a < Two24 THEN NormLeft(s, a, 0)
        ELSE LET k    == ExtraBits(a)
                 unit == Pow2(k)
                 q    == a \div unit
                 rest == a % unit
             IN  RoundPack(s, q, k, (2 * rest) \div unit, (2 * rest) % unit # 0)

\* Binary long division: n more quotient bits of r / d, with r < d.
RECURSIVE DivBits(_, _, _, _)
DivBits(q, r, d, n) ==
    IF n = 0 THEN <<q, r>>
    ELSE IF 2 * r >= d THEN DivBits(2 * q + 1, 2 * r - d, d, n - 1)
                       ELSE DivBits(2 * q, 2 * r, d, n - 1)

\* a / b in f32 (b is never zero: stored dimensions are positive).
F32Div(a, b) ==
    LET s == (a.s + b.s) % 2
    IN  IF a.m = 0 THEN F32Zero(s)
        ELSE IF a.m >= b.m
             THEN LET qr == DivBits(1, a.m - b.m, b.m, 24)
                  IN  RoundPack(s, qr[1] \div 2, a.e - b.e - 23,
                                qr[1] % 2, qr[2] # 0)
             ELSE LET qr == DivBits(0, a.m, b.m, 25)
                  IN  RoundPack(s, qr[1] \div 2, a.e - b.e - 24,
                                qr[1] % 2, qr[2] # 0)

\* a * b in f32.  The 48-bit product is formed from 12-bit halves.
F32Mul(a, b) ==
    LET s == (a.s + b.s) % 2
    IN  IF a.m = 0 \/ b.m = 0 THEN F32Zero(s)
        ELSE LET a1  == a.m \div 4096
                 a0  == a.m % 4096
                 b1  == b.m \div 4096
                 b0  == b.m % 4096
                 mid == a1 * b0 + a0 * b1
                 low == a0 * b0 + (mid % 4096) * 4096
                 lo  == low % Two24
                 hi  == a1 * b1 + mid \div 4096 + low \div Two24
             IN  IF hi >= Two23
                 THEN RoundPack(s, hi, a.e + b.e + 24,
                                lo \div Two23, lo % Two23 # 0)
                 ELSE RoundPack(s, 2 * hi + lo \div Two23, a.e + b.e + 23,
                                (lo % Two23) \div (Two23 \div 2),
                                lo % (Two23 \div 2) # 0)

\* `x as isize` for an f32 x: truncation toward zero.
F32ToInt(x) ==
    LET mag == IF x.m = 0 THEN 0
               ELSE IF x.e >= 0 THEN x.m * Pow2(x.e)
               ELSE IF x.e <= -24 THEN 0
               ELSE x.m \div Pow2(-x.e)
    IN  IF x.s = 1 THEN -mag ELSE mag

\* (a as f32 * (n as f32 / d as f32)) as isize
ScaleF32(a, n, d) ==
    F32ToInt(F32Mul(IntToF32(a), F32Div(IntToF32(n), IntToF32(d))))


(***************************************************************************)
(* `n as u32` for an isize n: the low 32 bits, kept as two 16-bit limbs    *)
(* <<high, low>> so that 2^32 - 1 stays representable.                     *)
(***************************************************************************)
AsU32(n) ==
    IF n >= 0 THEN <<(n \div 65536) % 65536, n % 65536>>
    ELSE LET c == (-n) - 1    \* n = -(c + 1) is the complement of c
         IN  <<65535 - ((c \div 65536) % 65536), 65535 - (c % 65536)>>

\* a <= b on u32 limb pairs
U32Leq(a, b) == a[1] < b[1] \/ (a[1] = b[1] /\ a[2] <= b[2])

(***************************************************************************)
(* The resize policy of fetch_file: the arms of `match params`.            *)
(***************************************************************************)
\* SizeArm clamping against the larger stored side instead of the smaller.
SizeArmLargerSide(width, height, requested_size) ==
    LET largest == IF width >= height THEN width ELSE height
        smallest_size == Min(requested_size, largest)
    IN  <<smallest_size, smallest_size>>

\* Resize { size: Some(requested_size), .. }
SizeArm(width, height, requested_size) ==
    LET smallest_size == Min(requested_size, Min(width, height))
    IN  <<smallest_size, smallest_size>>

\* MaxSideArm returning the two values on each other's axis.
MaxSideArmSwapped(width, height, requested_max_side) ==
    IF width <= height
    THEN LET h == Min(height, requested_max_side)
         IN  <<h, ScaleF32(width, h, height)>>
    ELSE LET w == Min(width, requested_max_side)
         IN  <<ScaleF32(height, w, width), w>>

\* Resize { max_side: Some(requested_max_side), .. }
MaxSideArm(width, height, requested_max_side) ==
    IF width <= height
    THEN LET h == Min(height, requested_max_side)
         IN  <<ScaleF32(width, h, height), h>>
    ELSE LET w == Min(width, requested_max_side)
         IN  <<w, ScaleF32(height, w, width)>>

\* Resize { width: Some(requested_width), height: Some(requested_height), .. }
WidthHeightArm(width, height, requested_width, requested_height) ==
    <<Min(width, requested_width), Min(height, requested_height)>>

\* WidthArm scaling by width / height instead of height / width.
WidthArmInverseRatio(width, height, requested_width) ==
    LET w == Min(width, requested_width)
    IN  <<w, ScaleF32(w, width, height)>>

\* Resize { width: Some(requested_width), .. }
WidthArm(width, height, requested_width) ==
    LET w == Min(width, requested_width)
    IN  <<w, ScaleF32(w, height, width)>>

\* HeightArm leaving the width at its stored value.
HeightArmUnscaled(width, height, requested_height) ==
    LET h == Min(height, requested_height)
    IN  <<width, h>>

\* Resize { height: Some(requested_height), .. }
HeightArm(width, height, requested_height) ==
    LET h == Min(height, requested_height)
    IN  <<ScaleF32(h, width, height), h>>

\* MatchArm with the max_side pattern written above the size pattern.
MatchArmMaxSideFirst(params) ==
    IF IsSome(params.max_side) THEN "max_side"
    ELSE IF IsSome(params.size) THEN "size"
    ELSE IF IsSome(params.width) /\ IsSome(params.height) THEN "width_height"
    ELSE IF IsSome(params.width) THEN "width"
    ELSE IF IsSome(params.height) THEN "height"
    ELSE "none"

\* Which arm of the match the request takes: the patterns are tried in the
\* order they are written and the first that matches wins.
MatchArm(params) ==
    IF IsSome(params.size) THEN "size"
    ELSE IF IsSome(params.max_side) THEN "max_side"
    ELSE IF IsSome(params.width) /\ IsSome(params.height) THEN "width_height"
    ELSE IF IsSome(params.width) THEN "width"
    ELSE IF IsSome(params.height) THEN "height"
    ELSE "none"

\* NewSize whose `_` arm resizes to the stored size instead of returning.
NewSizeNoEcho(width, height, params) ==
    LET arm == MatchArm(params)
    IN  CASE arm = "size" ->
               Some(SizeArm(width, height, Unwrap(params.size)))
          [] arm = "max_side" ->
               Some(MaxSideArm(width, height, Unwrap(params.max_side)))
          [] arm = "width_height" ->
               Some(WidthHeightArm(width, height, Unwrap(params.width),
                                   Unwrap(params.height)))
          [] arm = "width" ->
               Some(WidthArm(width, height, Unwrap(params.width)))
          [] arm = "height" ->
               Some(HeightArm(width, height, Unwrap(params.height)))
          [] OTHER -> Some(<<width, height>>)

\* (new_width, new_height) of the arm taken; None for the `_` arm.
NewSize(width, height, params) ==
    LET arm == MatchArm(params)
    IN  CASE arm = "size" ->
               Some(SizeArm(width, height, Unwrap(params.size)))
          [] arm = "max_side" ->
               Some(MaxSideArm(width, height, Unwrap(params.max_side)))
          [] arm = "width_height" ->
               Some(WidthHeightArm(width, height, Unwrap(params.width),
                                   Unwrap(params.height)))
          [] arm = "width" ->
               Some(WidthArm(width, height, Unwrap(params.width)))
          [] arm = "height" ->
               Some(HeightArm(width, height, Unwrap(params.height)))
          [] OTHER -> None

(***************************************************************************)
(* Values.                                                                 *)
(***************************************************************************)
\* What a stored object's bytes are to the decoder and the WebP encoder.
Blobs == {"rgb8", "luma16", "corrupt"}

\* A byte buffer: the stored bytes as read, or the transcoder's output.
Original(blob) ==
    [image |-> blob, format |-> "stored", width |-> None, height |-> None]

Encoded(blob, format, width, height) ==
    [image |-> blob, format |-> format,
     width |-> Some(width), height |-> Some(height)]

Ok(bytes, content_type) ==
    [ok |-> TRUE, bytes |-> Some(bytes), content_type |-> content_type,
     error |-> None]

Err(error) ==
    [ok |-> FALSE, bytes |-> None, content_type |-> None, error |-> Some(error)]

Image(w, h) == [kind |-> "Image", width |-> w, height |-> h]

Other == [kind |-> "Other", width |-> 0, height |-> 0]

PNG == [kind |-> "PNG", quality |-> None]

WEBP(quality) == [kind |-> "WEBP", quality |-> quality]

ServeConfigs == {PNG, WEBP(None), WEBP(Some(75))}

ResizeOf(V) == [size : Opt(V), width : Opt(V), height : Opt(V), max_side : Opt(V)]

\* MetadataDims without the early return for what is not an image.
MetadataDimsNoReturn(metadata) == Some(<<metadata.width + 1, metadata.height + 1>>)

\* Option<(isize, isize)> of `match metadata`: the stored size of an image.
MetadataDims(metadata) ==
    IF metadata.kind = "Image" THEN Some(<<metadata.width, metadata.height>>)
    ELSE None

(***************************************************************************)
(* try_resize(buf, width, height).  write_ok is the answer of              *)
(* image.write_to; the decoder fails on bytes it cannot read and           *)
(* webp::Encoder::from_image fails on a pixel layout it does not accept,   *)
(* which `.expect` turns into a panic.                                     *)
(***************************************************************************)
Returned(kind, cause, bytes) == [kind |-> kind, cause |-> cause, bytes |-> bytes]

try_resize(buf, width, height, config, write_ok) ==
    IF buf.image \notin {"rgb8", "luma16"}
    THEN Returned("Err", "decode", None)
    ELSE IF config.kind = "PNG"
    THEN IF write_ok
         THEN Returned("Ok", "none", Some(Encoded(buf.image, "png", width, height)))
         ELSE Returned("Err", "encode", None)
    ELSE IF buf.image # "rgb8"
    THEN Returned("Panic", "encoder", None)
    ELSE IF IsSome(config.quality)
    THEN Returned("Ok", "none",
                  Some(Encoded(buf.image, "webp_lossy", width, height)))
    ELSE Returned("Ok", "none",
                  Some(Encoded(buf.image, "webp_lossless", width, height)))

\* actix_web::web::block(f).await: Err when the pool cannot run the closure
\* or the closure panics, Ok(value) with the closure's value otherwise.
Block(pool_ok, returned) ==
    IF ~pool_ok THEN [joined |-> FALSE, ran |-> FALSE, returned |-> None]
    ELSE IF returned.kind = "Panic"
    THEN [joined |-> FALSE, ran |-> TRUE, returned |-> Some(returned)]
    ELSE [joined |-> TRUE, ran |-> TRUE, returned |-> Some(returned)]

\* Some(match config.serve { PNG => "image/png", WEBP { .. } => "image/webp" })
ContentType(config) ==
    IF config.kind = "PNG" THEN Some("image/png") ELSE Some("image/webp")

\* What the storage backend can answer.  Every answer but "ok" is an early
\* return with an error; the error get_s3_bucket returns is propagated by `?`
\* and counted here with the S3 errors.
BackendOutcomes(use_s3) ==
    IF use_s3 THEN {"ok", "bucket_error", "transport_error", "status_not_200"}
    ELSE {"ok", "path_error", "open_error", "read_error"}

BackendError(use_s3) == IF use_s3 THEN "S3Error" ELSE "IOError"

(***************************************************************************)
(* State of one call of fetch_file(id, tag, metadata, resize).             *)
(***************************************************************************)
VARIABLES
    USE_S3,      \* the backend toggle
    serve,       \* Config::global().serve
    stored,      \* the bytes the backend holds under id
    metadata,    \* argument
    resize,      \* argument: Option<Resize>
    pc,          \* "start", "fetched", "blocked", "joined", "done"
    storage,     \* "pending", "ok", "failed"
    contents,    \* the buffer read
    new_size,    \* Option<(new_width, new_height)>
    task,        \* Option of the arguments moved into the blocking closure
    join,        \* Option of what resize_task.await yields
    dispatched,  \* number of web::block calls
    result       \* Option of the value fetch_file returns

vars == <<USE_S3, serve, stored, metadata, resize, pc, storage, contents,
          new_size, task, join, dispatched, result>>

inputs == <<USE_S3, serve, stored, metadata, resize>>

Dims == 1..MaxDim

ReqVals == {-1} \cup (0..MaxReq)

Entry ==
    /\ pc = "start"
    /\ storage = "pending"
    /\ contents = Original("empty")
    /\ new_size = None
    /\ task = None
    /\ join = None
    /\ dispatched = 0
    /\ result = None

Init ==
    /\ USE_S3 \in BOOLEAN
    /\ serve \in ServeConfigs
    /\ stored \in Blobs
    /\ metadata \in {Other} \cup {Image(w, h) : w \in Dims, h \in Dims}
    /\ resize \in Opt(ResizeOf(ReqVals))
    /\ Entry

\* Lines 64-85: the backend read and its early returns.
StorageRead ==
    /\ pc = "start"
    /\ \E outcome \in BackendOutcomes(USE_S3) :
         IF outcome = "ok"
         THEN /\ contents' = Original(stored)
              /\ storage' = "ok"
              /\ pc' = "fetched"
              /\ UNCHANGED result
         ELSE /\ result' = Some(Err(BackendError(USE_S3)))
              /\ storage' = "failed"
              /\ pc' = "done"
              /\ UNCHANGED contents
    /\ UNCHANGED <<inputs, new_size, task, join, dispatched>>

\* Lines 87-136 and 148-151: the metadata check, the policy and the dispatch.
Resolve ==
    /\ pc = "fetched"
    /\ LET dims   == MetadataDims(metadata)
           target == IF IsSome(dims) /\ IsSome(resize)
                     THEN NewSize(Unwrap(dims)[1], Unwrap(dims)[2], Unwrap(resize))
                     ELSE None
       IN  IF IsSome(target)
           THEN /\ new_size' = target
                /\ task' = Some([buf    |-> contents,
                                 width  |-> AsU32(Unwrap(target)[1]),
                                 height |-> AsU32(Unwrap(target)[2])])
                /\ dispatched' = dispatched + 1
                /\ pc' = "blocked"
                /\ UNCHANGED result
           ELSE /\ result' = Some(Ok(contents, None))
                /\ pc' = "done"
                /\ UNCHANGED <<new_size, task, dispatched>>
    /\ UNCHANGED <<inputs, storage, contents, join>>

\* Lines 25-53 on the blocking pool, as web::block reports them.
RunTask ==
    /\ pc = "blocked"
    /\ \E pool_ok \in BOOLEAN, write_ok \in BOOLEAN :
         join' = Some(Block(pool_ok,
                            try_resize(Unwrap(task).buf, Unwrap(task).width,
                                       Unwrap(task).height, serve, write_ok)))
    /\ pc' = "joined"
    /\ UNCHANGED <<inputs, storage, contents, new_size, task, dispatched, result>>

\* Lines 138-147: the match on the awaited task.
AwaitTask ==
    /\ pc = "joined"
    /\ LET j == Unwrap(join)
       IN  result' = Some(IF ~j.joined THEN Err("BlockingError")
                          ELSE IF Unwrap(j.returned).kind = "Ok"
                          THEN Ok(Unwrap(Unwrap(j.returned).bytes), ContentType(serve))
                          ELSE Err("IOError"))
    /\ pc' = "done"
    /\ UNCHANGED <<inputs, storage, contents, new_size, task, join, dispatched>>

Next == StorageRead \/ Resolve \/ RunTask \/ AwaitTask

Spec == Init /\ [][Next]_vars

(***************************************************************************)
(* The same program on image sizes and requests wide enough for the f32    *)
(* arithmetic of the policy to round.                                      *)
(***************************************************************************)
WideDims == {1, 41, 400, 500, 1000, 16777219}

WideReq == {-1, 1, 41, 200, 500}

InitResolver ==
    /\ USE_S3 = FALSE
    /\ serve = PNG
    /\ stored = "rgb8"
    /\ metadata \in {Image(w, h) : w \in WideDims, h \in WideDims}
    /\ resize \in {Some(p) : p \in ResizeOf(WideReq)}
    /\ Entry

ResolverSpec == InitResolver /\ [][Next]_vars

(***************************************************************************)
(* Properties.                                                             *)
(***************************************************************************)
IsImage == metadata.kind = "Image"

StoredWidth == metadata.width

StoredHeight == metadata.height

Params == Unwrap(resize)

NoParams(p) ==
    ~IsSome(p.size) /\ ~IsSome(p.max_side) /\ ~IsSome(p.width) /\ ~IsSome(p.height)

\* The policy has yielded a target for this call.
Resized == IsSome(new_size)

TargetWidth == Unwrap(new_size)[1]

TargetHeight == Unwrap(new_size)[2]

Max(a, b) == IF a >= b THEN a ELSE b

\* <<q, r>> with a * b = q * c + r and 0 <= r < c, for a, b >= 0 and c > 0,
\* one bit of b at a time so that no intermediate value leaves 32 bits.
RECURSIVE MulDivMod(_, _, _)
MulDivMod(a, b, c) ==
    IF b = 0 THEN <<0, 0>>
    ELSE LET h == MulDivMod(a, b \div 2, c)
             t == 2 * h[2] + (IF b % 2 = 1 THEN a ELSE 0)
         IN  <<2 * h[1] + t \div c, t % c>>

\* a * b / c in exact arithmetic, truncated toward zero (a >= 0, c > 0).
TruncMulDiv(a, b, c) ==
    IF b >= 0 THEN MulDivMod(a, b, c)[1] ELSE -(MulDivMod(a, -b, c)[1])

\* C1: whenever the policy yields a target, its width is at most the stored
\* width and its height at most the stored height, in every branch.
C1_TargetWithinStored ==
    Resized => TargetWidth <= StoredWidth /\ TargetHeight <= StoredHeight

\* The request with every field of lower priority than the winning one removed.
Absent == [size |-> None, width |-> None, height |-> None, max_side |-> None]

StripLower(p) ==
    IF IsSome(p.size) THEN [Absent EXCEPT !.size = p.size]
    ELSE IF IsSome(p.max_side) THEN [Absent EXCEPT !.max_side = p.max_side]
    ELSE p

\* The target the priority chain prescribes: size, else max_side, else the
\* two-axis clamp, else width only, else height only, else no resize.
PriorityTarget(w, h, p) ==
    IF IsSome(p.size) THEN Some(SizeArm(w, h, Unwrap(p.size)))
    ELSE IF IsSome(p.max_side) THEN Some(MaxSideArm(w, h, Unwrap(p.max_side)))
    ELSE IF IsSome(p.width) /\ IsSome(p.height)
         THEN Some(WidthHeightArm(w, h, Unwrap(p.width), Unwrap(p.height)))
    ELSE IF IsSome(p.width) THEN Some(WidthArm(w, h, Unwrap(p.width)))
    ELSE IF IsSome(p.height) THEN Some(HeightArm(w, h, Unwrap(p.height)))
    ELSE None

\* C2: once the policy has run on an image with a request, its outcome is the
\* one of the first present field in the order size, max_side, width+height,
\* width, height (no resize when all four are absent), and it is the outcome
\* of the same request with every lower-priority field removed.
C2_StrictPriority ==
    (IsImage /\ IsSome(resize) /\ pc \in {"blocked", "joined", "done"}
             /\ storage = "ok") =>
        /\ new_size = PriorityTarget(StoredWidth, StoredHeight, Params)
        /\ new_size = NewSize(StoredWidth, StoredHeight, StripLower(Params))
        /\ (NoParams(Params) <=> ~Resized)

\* A request carrying size and max_side with different outcomes was resolved.
C2_Witness ==
    /\ pc = "blocked"
    /\ IsSome(Params.size) /\ IsSome(Params.max_side) /\ IsSome(Params.width)
    /\ new_size # Some(MaxSideArm(StoredWidth, StoredHeight, Unwrap(Params.max_side)))
    /\ new_size # Some(WidthArm(StoredWidth, StoredHeight, Unwrap(Params.width)))

\* C3: for a square stored image every target the policy yields is square.
C3_SquareStaysSquare ==
    (Resized /\ StoredWidth = StoredHeight) => TargetWidth = TargetHeight

\* C3 as amended: for a square stored image whose side and clamped values are
\* exact in f32 (below 2^24), the size, width-only and height-only branches
\* yield a square; the width+height branch yields a square exactly when its
\* two clamps agree; the max_side branch yields a width within one of the
\* height.
C3_SquareByBranch ==
    (Resized /\ StoredWidth = StoredHeight /\ StoredWidth < Two24) =>
        LET arm == MatchArm(Params)
        IN  /\ arm \in {"size", "width", "height"} => TargetWidth = TargetHeight
            /\ arm = "width_height" =>
                  (TargetWidth = TargetHeight <=>
                     Min(StoredWidth, Unwrap(Params.width))
                       = Min(StoredHeight, Unwrap(Params.height)))
            /\ arm = "max_side" =>
                  /\ TargetHeight = Min(StoredHeight, Unwrap(Params.max_side))
                  /\ Abs(TargetWidth - TargetHeight) <= 1

\* A square image resolved by height alone to a square smaller than itself.
C3_Witness ==
    /\ pc = "blocked"
    /\ StoredWidth = StoredHeight /\ StoredWidth < Two24
    /\ MatchArm(Params) = "height"
    /\ TargetWidth = TargetHeight
    /\ 0 < TargetHeight /\ TargetHeight < StoredHeight

\* C4: with size present the target is the square of side
\* min(size, min(width, height)); with size >= max(width, height) it is the
\* square of side min(width, height).
C4_SizeSquare ==
    (Resized /\ IsSome(Params.size)) =>
        LET size == Unwrap(Params.size)
            m    == IF StoredWidth <= StoredHeight THEN StoredWidth ELSE StoredHeight
            side == IF size <= m THEN size ELSE m
        IN  /\ new_size = Some(<<side, side>>)
            /\ size >= Max(StoredWidth, StoredHeight) => new_size = Some(<<m, m>>)

\* A non-square image was asked for a size at least its longer side.
C4_Witness ==
    /\ pc = "blocked"
    /\ IsSome(Params.size)
    /\ StoredWidth # StoredHeight
    /\ Unwrap(Params.size) >= Max(StoredWidth, StoredHeight)
    /\ TargetWidth = Min(StoredWidth, StoredHeight)

\* C5: with size absent and max_side present the longer stored axis L (the
\* height when width <= height) becomes L' = min(max_side, L) and the shorter
\* axis S becomes S * L' / L truncated, each on its own axis; stored
\* (1000, 400) with max_side = 500 gives (500, 200).
C5_MaxSideProportional ==
    (Resized /\ ~IsSome(Params.size) /\ IsSome(Params.max_side)) =>
        LET m == Unwrap(Params.max_side)
        IN  /\ StoredWidth <= StoredHeight =>
                 LET l == Min(m, StoredHeight)
                 IN  new_size = Some(<<TruncMulDiv(StoredWidth, l, StoredHeight), l>>)
            /\ StoredWidth > StoredHeight =>
                 LET l == Min(m, StoredWidth)
                 IN  new_size = Some(<<l, TruncMulDiv(StoredHeight, l, StoredWidth)>>)
            /\ (StoredWidth = 1000 /\ StoredHeight = 400 /\ m = 500) =>
                 new_size = Some(<<500, 200>>)

\* C5 as amended: with size absent and max_side present the longer stored
\* axis L (the height when width <= height) becomes L' = min(max_side, L) and
\* the shorter axis S becomes the f32 product of S and the f32 quotient
\* L' / L, truncated toward zero, each on its own axis; stored (1000, 400)
\* with max_side = 500 gives (500, 200).
C5_MaxSideF32 ==
    (Resized /\ ~IsSome(Params.size) /\ IsSome(Params.max_side)) =>
        LET m == Unwrap(Params.max_side)
        IN  /\ StoredWidth <= StoredHeight =>
                 LET l == Min(m, StoredHeight)
                 IN  /\ TargetHeight = l
                     /\ TargetWidth = F32ToInt(F32Mul(IntToF32(StoredWidth),
                            F32Div(IntToF32(l), IntToF32(StoredHeight))))
            /\ StoredWidth > StoredHeight =>
                 LET l == Min(m, StoredWidth)
                 IN  /\ TargetWidth = l
                     /\ TargetHeight = F32ToInt(F32Mul(IntToF32(StoredHeight),
                            F32Div(IntToF32(l), IntToF32(StoredWidth))))
            /\ (StoredWidth = 1000 /\ StoredHeight = 400 /\ m = 500) =>
                 new_size = Some(<<500, 200>>)

\* max_side resolved an image to a shorter axis below the exact quotient.
C5_Witness ==
    /\ pc = "blocked"
    /\ ~IsSome(Params.size) /\ IsSome(Params.max_side)
    /\ StoredWidth <= StoredHeight
    /\ TargetHeight = Min(Unwrap(Params.max_side), StoredHeight)
    /\ 0 < TargetHeight
    /\ TargetWidth < TruncMulDiv(StoredWidth, TargetHeight, StoredHeight)

\* C6: with only width present the target width is w' = min(stored width,
\* requested width) and the target height w' * stored height / stored width
\* truncated; with only height present the same with the axes swapped; stored
\* (1000, 500) with width = 200 gives (200, 100).
C6_SingleAxisProportional ==
    (Resized /\ ~IsSome(Params.size) /\ ~IsSome(Params.max_side)) =>
        /\ (IsSome(Params.width) /\ ~IsSome(Params.height)) =>
             LET w == Min(StoredWidth, Unwrap(Params.width))
             IN  /\ new_size = Some(<<w, TruncMulDiv(StoredHeight, w, StoredWidth)>>)
                 /\ (StoredWidth = 1000 /\ StoredHeight = 500 /\ w = 200) =>
                      new_size = Some(<<200, 100>>)
        /\ (IsSome(Params.height) /\ ~IsSome(Params.width)) =>
             LET h == Min(StoredHeight, Unwrap(Params.height))
             IN  new_size = Some(<<TruncMulDiv(StoredWidth, h, StoredHeight), h>>)

\* C6 as amended: with only width present the target width is w' = min(stored
\* width, requested width) and the target height the f32 product of w' and
\* the f32 quotient stored height / stored width, truncated toward zero; with
\* only height present the same with the axes swapped; stored (1000, 500) with
\* width = 200 gives (200, 100).
C6_SingleAxisF32 ==
    (Resized /\ ~IsSome(Params.size) /\ ~IsSome(Params.max_side)) =>
        /\ (IsSome(Params.width) /\ ~IsSome(Params.height)) =>
             LET w == Min(StoredWidth, Unwrap(Params.width))
             IN  /\ TargetWidth = w
                 /\ TargetHeight = F32ToInt(F32Mul(IntToF32(w),
                        F32Div(IntToF32(StoredHeight), IntToF32(StoredWidth))))
                 /\ (StoredWidth = 1000 /\ StoredHeight = 500 /\ w = 200) =>
                      new_size = Some(<<200, 100>>)
        /\ (IsSome(Params.height) /\ ~IsSome(Params.width)) =>
             LET h == Min(StoredHeight, Unwrap(Params.height))
             IN  /\ TargetHeight = h
                 /\ TargetWidth = F32ToInt(F32Mul(IntToF32(h),
                        F32Div(IntToF32(StoredWidth), IntToF32(StoredHeight))))

\* Width alone resolved an image at its full width to a height of zero.
C6_Witness ==
    /\ pc = "blocked"
    /\ MatchArm(Params) = "width"
    /\ TargetWidth = StoredWidth
    /\ StoredWidth > StoredHeight
    /\ TargetHeight = 0

\* C7: after a successful read of what is not an image the call dispatches
\* nothing and, once done, has returned Ok with the bytes read and no
\* content type, whatever the request.
C7_NonImageEcho ==
    (storage = "ok" /\ ~IsImage) =>
        /\ pc \in {"fetched", "done"}
        /\ dispatched = 0 /\ task = None /\ join = None
        /\ pc = "done" => result = Some(Ok(Original(stored), None))

\* A non-image was fetched with a size request and the call is done.
C7_Witness ==
    /\ pc = "done" /\ storage = "ok" /\ ~IsImage
    /\ IsSome(resize) /\ IsSome(Params.size) /\ IsSome(Params.max_side)
    /\ result = Some(Ok(Original(stored), None))

\* C8: after a successful read with no resize parameter (no resize argument,
\* or one whose four fields are absent) the call dispatches nothing and, once
\* done, has returned Ok with the bytes read and no content type, for images
\* and non-images alike.
C8_NoParamsEcho ==
    (storage = "ok" /\ (~IsSome(resize) \/ NoParams(Params))) =>
        /\ pc \in {"fetched", "done"}
        /\ dispatched = 0 /\ task = None /\ join = None
        /\ pc = "done" => result = Some(Ok(Original(stored), None))

\* An image was fetched with a resize argument whose fields are all absent.
C8_Witness ==
    /\ pc = "done" /\ storage = "ok" /\ IsImage
    /\ IsSome(resize) /\ NoParams(Params)
    /\ result = Some(Ok(Original(stored), None))

\* C9: a finished fetch of an image whose request selected a branch has
\* dispatched the transcoder exactly once and ended in exactly one of: Ok
\* with the transcoder's bytes and the configured content type, the
\* transcoding having succeeded; the I/O error, decoding or encoding having
\* failed; the blocking error, the pool having failed to run the task.  It
\* has not returned the original bytes.
C9_TranscodeOutcomes ==
    (pc = "done" /\ storage = "ok" /\ IsImage /\ Resized) =>
        LET j == Unwrap(join)
        IN  /\ dispatched = 1
            /\ IF ~j.ran
               THEN result = Some(Err("BlockingError"))
               ELSE IF Unwrap(j.returned).cause \in {"decode", "encode", "encoder"}
               THEN result = Some(Err("IOError"))
               ELSE /\ result = Some(Ok(Unwrap(Unwrap(j.returned).bytes),
                                        ContentType(serve)))
                    /\ Unwrap(result).content_type \in
                          {Some("image/png"), Some("image/webp")}
            /\ result # Some(Ok(Original(stored), None))

\* C10: the width and height handed to try_resize, as u32, are at most the
\* stored width and height.
C10_DispatchedWithinStored ==
    IsSome(task) =>
        /\ U32Leq(Unwrap(task).width, AsU32(StoredWidth))
        /\ U32Leq(Unwrap(task).height, AsU32(StoredHeight))
====
